---------------------------- MODULE Spec2Model ----------------------------
(***************************************************************************)
(* Greybus operation engine (operation.c): operation creation, identifier  *)
(* assignment and the pending tree, synchronous and asynchronous send, the *)
(* interrupt-context receive path and the deferred work that completes an  *)
(* operation.                                                              *)
(*                                                                         *)
(* One connection is modelled.  Caller threads create, send and destroy    *)
(* outgoing operations; the peer hands arbitrary frames to the receive     *)
(* path; one worker runs the queued recv_work items in order.              *)
(***************************************************************************)
EXTENDS Integers, Sequences, FiniteSets, TLC

(***************************************************************************)
(* Bounds of the model.                                                    *)
(***************************************************************************)
\* operation objects that can ever be allocated (slots are never reused)
MaxOps == 2
\* caller threads, each creating and sending one outgoing operation
MaxThreads == 2
\* frames the peer hands to the receive path
MaxFrames == 2
\* a burst of exchanges starts only while the counter is at most this
MaxBurstStart == 1

(***************************************************************************)
(* Program constants.                                                      *)
(***************************************************************************)
GB_OPERATION_TYPE_RESPONSE == 128
GB_OPERATION_MESSAGE_SIZE_MAX == 4096
\* sizeof(struct gb_operation_msg_hdr): two __le16, one __u8, aligned to u64
HdrSize == 8
\* largest value of the u16 operation id
U16_MAX == 65535

Slots == 1..MaxOps
Threads == 1..MaxThreads
\* the null operation pointer
NoOp == 0

(***************************************************************************)
(* Memory blocks.  A block of bytes is kept as its runs: a sequence of     *)
(* << byte, count >> with count > 0 and no two neighbours of the same      *)
(* byte.  << << 0, 16 >> >> is sixteen zero bytes.                         *)
(***************************************************************************)
RECURSIVE BLen(_)
BLen(b) == IF b = << >> THEN 0 ELSE b[1][2] + BLen(Tail(b))

RECURSIVE BByte(_, _)
\* the i-th byte (from 1)
BByte(b, i) == IF i <= b[1][2] THEN b[1][1] ELSE BByte(Tail(b), i - b[1][2])

\* concatenation, joining the runs that meet when they hold the same byte
BCat(a, b) ==
    IF a = << >> THEN b
    ELSE IF b = << >> THEN a
    ELSE IF a[Len(a)][1] = b[1][1]
         THEN SubSeq(a, 1, Len(a) - 1)
                \o << << b[1][1], a[Len(a)][2] + b[1][2] >> >> \o Tail(b)
         ELSE a \o b

RECURSIVE BTake(_, _)
\* the first k bytes
BTake(b, k) ==
    IF k <= 0 \/ b = << >> THEN << >>
    ELSE IF k < b[1][2] THEN << << b[1][1], k >> >>
    ELSE << b[1] >> \o BTake(Tail(b), k - b[1][2])

RECURSIVE BDrop(_, _)
\* all but the first k bytes
BDrop(b, k) ==
    IF k <= 0 \/ b = << >> THEN b
    ELSE IF k < b[1][2] THEN << << b[1][1], b[1][2] - k >> >> \o Tail(b)
    ELSE BDrop(Tail(b), k - b[1][2])

\* n bytes of value v
Fill(n, v) == IF n <= 0 THEN << >> ELSE << << v, n >> >>

RECURSIVE Block(_)
\* the block of a sequence of bytes
Block(bytes) ==
    IF bytes = << >> THEN << >>
    ELSE BCat(<< << bytes[1], 1 >> >>, Block(Tail(bytes)))

(***************************************************************************)
(* Wire header: size and id are little-endian 16-bit, then the type byte   *)
(* and three pad bytes.                                                    *)
(***************************************************************************)
cpu_to_le16(v) == << v % 256, (v \div 256) % 256 >>

le16_to_cpu(buf, at) == BByte(buf, at) + 256 * BByte(buf, at + 1)

\* the eight header bytes for (size, id, type)
HdrBytes(size, id, type) ==
    Block(cpu_to_le16(size) \o cpu_to_le16(id) \o << type % 256, 0, 0, 0 >>)

hdr_size(buf) == le16_to_cpu(buf, 1)
hdr_id(buf) == le16_to_cpu(buf, 3)
hdr_type(buf) == BByte(buf, 5)

\* bit test  (x & GB_OPERATION_TYPE_RESPONSE) on a byte
IsResponseType(type) == (type \div GB_OPERATION_TYPE_RESPONSE) % 2 = 1

\* type | GB_OPERATION_TYPE_RESPONSE on a byte
OrResponse(type) ==
    IF IsResponseType(type) THEN type ELSE type + GB_OPERATION_TYPE_RESPONSE

\* an insert that leaves the id field of the request header as it is
SetHdrId_not_written(buf, id) == buf

\* buf with its id field (bytes 3..4) overwritten
SetHdrId(buf, id) ==
    BCat(BCat(BTake(buf, 2), Block(cpu_to_le16(id))), BDrop(buf, 4))

(***************************************************************************)
(* gbufs.                                                                  *)
(***************************************************************************)
NullGbuf ==
    [null |-> TRUE, transfer_buffer |-> << >>, transfer_buffer_length |-> 0,
     actual_length |-> 0, status |-> "unset", finished |-> FALSE]

\* greybus_alloc_gbuf: a zeroed buffer of the given size
greybus_alloc_gbuf(size) ==
    [null |-> FALSE, transfer_buffer |-> Fill(size, 0),
     transfer_buffer_length |-> size, actual_length |-> 0,
     status |-> "unset", finished |-> FALSE]

\* a header whose size field is the payload size alone
gb_operation_gbuf_create_payload_size(type, size) ==
    LET total == size + HdrSize
        gbuf == greybus_alloc_gbuf(total)
    IN  [gbuf EXCEPT !.transfer_buffer =
            BCat(HdrBytes(size, 0, type), Fill(size, 0))]

\* gb_operation_gbuf_create: size grows by the header, header filled in
gb_operation_gbuf_create(type, size) ==
    LET total == size + HdrSize
        gbuf == greybus_alloc_gbuf(total)
    IN  [gbuf EXCEPT !.transfer_buffer =
            BCat(HdrBytes(total, 0, type), Fill(size, 0))]


(***************************************************************************)
(* State.                                                                  *)
(***************************************************************************)
VARIABLES
    ops,          \* slot -> struct gb_operation (and whether it is allocated)
    op_cycle,     \* connection->op_cycle, the identifier counter
    pending,      \* connection->pending: the tree, as its in-order sequence
    operations,   \* connection->operations: the list of all operations
    protocol,     \* connection->protocol
    gb_operations_lock, \* NoOp when free, else the slot whose insert holds it
    thr,          \* caller threads: position in create / send / destroy
    rx,           \* the receive path: position in gb_connection_operation_recv
    workq,        \* gb_operation_recv_workqueue: queued recv_work items
    wk,           \* the worker: position in gb_operation_recv_work
    rxlog,        \* what the last gb_connection_operation_recv call did
    nframes,      \* frames handed to the receive path so far
    handled,      \* number of request-handler invocations
    fault,        \* undefined behaviour that has happened so far
    halted,       \* the kernel stopped on a fault
    leaked,       \* memory gb_operation_create allocated and lost
    errlog        \* the last error gb_operation_gbuf_complete reported

vars == << ops, op_cycle, pending, operations, protocol, gb_operations_lock,
           thr, rx, workq, wk, rxlog, nframes, handled, fault, halted,
           leaked, errlog >>

\* memory of a slot that was never allocated
FreeOp ==
    [st |-> "free", id |-> 0, request |-> NullGbuf, response |-> NullGbuf,
     result |-> "unset", callback |-> FALSE, done |-> FALSE,
     submitted |-> FALSE, interrupted |-> FALSE,
     ncomplete |-> 0, ncallback |-> 0]

IdleThread == [pc |-> "idle", op |-> NoOp, ret |-> "none"]
IdleRx == [pc |-> "idle", op |-> NoOp, data |-> << >>, size |-> 0]
IdleWk == [pc |-> "idle", op |-> NoOp, incoming_request |-> FALSE]
NoLog ==
    [outcome |-> "none", op |-> NoOp, type |-> 0, id |-> 0, size |-> 0,
     msg_size |-> 0]

\* the handler table: gb_operation_recv_none for I2C and BATTERY, NULL for
\* the others; BEYOND stands for a protocol value past the end of the table
Protocols == {"CONTROL", "I2C", "BEYOND"}
InTable(p) == p # "BEYOND"
gb_operation_recv_handlers(p) ==
    IF p \in {"I2C", "BATTERY"} THEN "gb_operation_recv_none" ELSE "NULL"

\* nothing reported yet
NoReport == [reported |-> FALSE, id |-> 0, type |-> 0, status |-> "0"]

Init ==
    /\ ops = [o \in Slots |-> FreeOp]
    /\ op_cycle = 0
    /\ pending = << >>
    /\ operations = << >>
    /\ protocol \in Protocols
    /\ gb_operations_lock = NoOp
    /\ thr = [t \in Threads |-> IdleThread]
    /\ rx = IdleRx
    /\ workq = << >>
    /\ wk = IdleWk
    /\ rxlog = NoLog
    /\ nframes = 0
    /\ handled = 0
    /\ fault = {}
    /\ halted = FALSE
    /\ leaked = {}
    /\ errlog = NoReport

(***************************************************************************)
(* Helpers.                                                                *)
(***************************************************************************)
Live(o) == o # NoOp /\ ops[o].st = "live"
Destroyed(o) == o # NoOp /\ ops[o].st = "destroyed"
FreeSlots == {o \in Slots : ops[o].st = "free"}
\* the slot the next allocation returns
NextSlot == CHOOSE o \in FreeSlots : \A p \in FreeSlots : o <= p

SeqSet(s) == {s[i] : i \in DOMAIN s}
\* an insert that never links the node
InsertAt_not_linked(s, pos, e) == s

InsertAt(s, pos, e) == SubSeq(s, 1, pos - 1) \o << e >> \o SubSeq(s, pos, Len(s))
RemoveAll(s, e) == SelectSeq(s, LAMBDA x : x # e)

\* rb_erase of the node: of no effect on the other nodes; erasing a node
\* that is not in the tree is outside what the tree allows
\* a removal that leaves the node in the tree
gb_operation_remove_not_erased(tree, o) == tree

gb_operation_remove(tree, o) == RemoveAll(tree, o)

\* A step that touches freed memory when `bad` holds: the kernel may stop
\* there, or go on with the stale contents.
Undefined(bad, what) ==
    /\ fault' = IF bad THEN fault \cup {what} ELSE fault
    /\ halted' \in IF bad THEN BOOLEAN ELSE {FALSE}

NoFault == UNCHANGED << fault, halted >>

LockFree == gb_operations_lock = NoOp

(***************************************************************************)
(* The pending tree.  The walk goes left, goes right, or stops, by the     *)
(* three-way comparison of ids; the tree is kept as its in-order sequence  *)
(* and the walk takes the middle of the remaining range as the subtree's   *)
(* root.                                                                   *)
(***************************************************************************)
\* an insert that sends an equal id to the right instead of staying put
insert_compare_equal_right(other_id, id) ==
    IF other_id > id THEN "left" ELSE "right"

\* gb_operation_insert, lines 83..86: an equal id moves the link nowhere
insert_compare(other_id, id) ==
    IF other_id > id THEN "left"
    ELSE IF other_id < id THEN "right"
    ELSE "stay"

\* a find that walks the wrong way: left and right swapped
find_compare_swapped(other_id, id) ==
    IF other_id > id THEN "right"
    ELSE IF other_id < id THEN "left"
    ELSE "found"

\* a find that takes any node that is not larger for the one looked for
find_compare_no_right(other_id, id) ==
    IF other_id > id THEN "left" ELSE "found"

\* gb_operation_find, lines 112..117
find_compare(other_id, id) ==
    IF other_id > id THEN "left"
    ELSE IF other_id < id THEN "right"
    ELSE "found"

RECURSIVE insert_walk(_, _, _, _, _)
\* position of the empty link the walk ends at; 0 when the walk never ends
insert_walk(tree, lo, hi, id, seen) ==
    IF lo > hi THEN [pos |-> lo, seen |-> seen]
    ELSE LET mid == (lo + hi) \div 2
             other == tree[mid]
             dir == insert_compare(ops[other].id, id)
         IN  IF dir = "left"
             THEN insert_walk(tree, lo, mid - 1, id, seen \cup {other})
             ELSE IF dir = "right"
             THEN insert_walk(tree, mid + 1, hi, id, seen \cup {other})
             ELSE [pos |-> 0, seen |-> seen \cup {other}]

RECURSIVE find_walk(_, _, _, _, _)
find_walk(tree, lo, hi, id, seen) ==
    IF lo > hi THEN [op |-> NoOp, seen |-> seen]
    ELSE LET mid == (lo + hi) \div 2
             other == tree[mid]
             dir == find_compare(ops[other].id, id)
         IN  IF dir = "left"
             THEN find_walk(tree, lo, mid - 1, id, seen \cup {other})
             ELSE IF dir = "right"
             THEN find_walk(tree, mid + 1, hi, id, seen \cup {other})
             ELSE [op |-> other, seen |-> seen \cup {other}]

gb_operation_find(id) == find_walk(pending, 1, Len(pending), id, {})

\* gb_connection_operation_id: the counter advances, wraps at 16 bits and
\* skips zero
gb_connection_operation_id(cycle) == IF cycle >= U16_MAX THEN 1 ELSE cycle + 1

(***************************************************************************)
(* Create, send, wait and destroy: the caller's side.                      *)
(***************************************************************************)
\* inputs of the callers
RequestTypes == {1}
RequestSizes == {0}
ResponseSizes == {8}
\* what greybus_submit_gbuf and greybus_kill_gbuf can return
Errnos == {"0", "-EIO"}

\* the operation gb_operation_create builds: the request buffer always, the
\* response buffer (type with the response bit) when response_size is not 0
gb_operation_create(type, request_size, response_size) ==
    LET outgoing == response_size # 0
        request == [gb_operation_gbuf_create(type, request_size)
                        EXCEPT !.actual_length = request_size]
        response == IF outgoing
                    THEN gb_operation_gbuf_create(OrResponse(type), response_size)
                    ELSE NullGbuf
    IN  [FreeOp EXCEPT !.st = "live", !.request = request,
                       !.response = response, !.callback = FALSE,
                       !.done = FALSE]

\* a caller creates an outgoing operation; the new operation joins the
\* connection's list under the lock
CreateWith(t, types, request_sizes, response_sizes) ==
    /\ ~ halted
    /\ UNCHANGED << leaked, errlog >>
    /\ thr[t].pc = "idle"
    /\ \A u \in Threads : u < t => thr[u].pc # "idle"
    /\ FreeSlots # {}
    /\ LockFree
    /\ \E type \in types, rq \in request_sizes, rs \in response_sizes :
         LET o == NextSlot IN
           /\ ops' = [ops EXCEPT ![o] = gb_operation_create(type, rq, rs)]
           /\ operations' = Append(operations, o)
           /\ thr' = [thr EXCEPT ![t] = [pc |-> "created", op |-> o, ret |-> "none"]]
    /\ UNCHANGED << op_cycle, pending, protocol, gb_operations_lock, rx, workq,
                    wk, rxlog, nframes, handled, fault, halted >>

Create(t) == CreateWith(t, RequestTypes, RequestSizes, ResponseSizes)

\* gb_operation_request_send up to the lock in gb_operation_insert: the
\* callback is stored, the id assigned and written to the request header
SendAssign(t) ==
    /\ ~ halted
    /\ UNCHANGED << leaked, errlog >>
    /\ thr[t].pc = "created"
    /\ \E callback \in BOOLEAN :
         LET o == thr[t].op
             id == gb_connection_operation_id(op_cycle)
         IN /\ op_cycle' = id
            /\ ops' = [ops EXCEPT ![o].callback = callback,
                                  ![o].id = id,
                                  ![o].request.transfer_buffer =
                                      SetHdrId(@, id)]
            /\ thr' = [thr EXCEPT ![t].pc = "insert"]
    /\ UNCHANGED << pending, operations, protocol, gb_operations_lock, rx,
                    workq, wk, rxlog, nframes, handled, fault, halted >>

\* gb_operation_insert under the lock: the walk ends at an empty link and
\* the node is linked there, or it meets an equal id and loops for ever
\* with the lock held
SendInsert(t) ==
    /\ ~ halted
    /\ UNCHANGED << leaked, errlog >>
    /\ thr[t].pc = "insert"
    /\ LockFree
    /\ LET o == thr[t].op
           w == insert_walk(pending, 1, Len(pending), ops[o].id, {})
       IN /\ IF w.pos = 0
             THEN /\ gb_operations_lock' = o
                  /\ thr' = [thr EXCEPT ![t].pc = "spinning"]
                  /\ UNCHANGED pending
             ELSE /\ pending' = InsertAt(pending, w.pos, o)
                  /\ thr' = [thr EXCEPT ![t].pc = "submit"]
                  /\ UNCHANGED gb_operations_lock
          /\ Undefined(\E p \in w.seen : Destroyed(p), "use after free")
    /\ UNCHANGED << ops, op_cycle, operations, protocol, rx, workq, wk, rxlog,
                    nframes, handled >>

\* greybus_submit_gbuf and what follows it: an error is returned at once,
\* an asynchronous send returns 0, a synchronous one starts to wait
SendSubmit(t) ==
    /\ ~ halted
    /\ UNCHANGED << leaked, errlog >>
    /\ thr[t].pc = "submit"
    /\ \E ret \in Errnos :
         LET o == thr[t].op IN
           IF ret # "0"
           THEN /\ thr' = [thr EXCEPT ![t].pc = "returned", ![t].ret = ret]
                /\ UNCHANGED ops
           ELSE /\ ops' = [ops EXCEPT ![o].submitted = TRUE]
                /\ thr' = [thr EXCEPT
                       ![t].pc = IF ops[o].callback THEN "returned" ELSE "wait",
                       ![t].ret = IF ops[o].callback THEN "0" ELSE "none"]
    /\ UNCHANGED << op_cycle, pending, operations, protocol, gb_operations_lock,
                    rx, workq, wk, rxlog, nframes, handled, fault, halted >>

\* a wait that returns without the completion being done
gb_operation_wait_no_wait(o) == TRUE

\* wait_for_completion_interruptible returns 0 once the completion is done
gb_operation_wait_done(o) == ops[o].done

WaitDone(t) ==
    /\ ~ halted
    /\ UNCHANGED << leaked, errlog >>
    /\ thr[t].pc = "wait"
    /\ gb_operation_wait_done(thr[t].op)
    /\ thr' = [thr EXCEPT ![t].pc = "returned", ![t].ret = "0"]
    /\ UNCHANGED << ops, op_cycle, pending, operations, protocol,
                    gb_operations_lock, rx, workq, wk, rxlog, nframes, handled, fault,
                    halted >>

\* a signal ends the wait before the completion is done: the request gbuf
\* is killed and gb_operation_wait returns what greybus_kill_gbuf returned
WaitInterrupted(t) ==
    /\ ~ halted
    /\ UNCHANGED << leaked, errlog >>
    /\ thr[t].pc = "wait"
    /\ ~ ops[thr[t].op].done
    /\ \E ret \in Errnos :
         /\ thr' = [thr EXCEPT ![t].pc = "returned", ![t].ret = ret]
         /\ ops' = [ops EXCEPT ![thr[t].op].interrupted = TRUE]
    /\ UNCHANGED << op_cycle, pending, operations, protocol, gb_operations_lock,
                    rx, workq, wk, rxlog, nframes, handled, fault, halted >>

\* the allocations of gb_operation_create, in the order it makes them
AllocFailures == {"operation", "request", "response"}

\* a failure path that forgets the request buffer when the response buffer
\* cannot be allocated
gb_operation_create_failed_leak(fail) ==
    [ret |-> "NULL",
     allocated |-> CASE fail = "operation" -> {}
                     [] fail = "request" -> {"operation"}
                     [] OTHER -> {"operation", "request"},
     released |-> CASE fail = "operation" -> {}
                    [] OTHER -> {"operation"},
     listed |-> FALSE]

\* gb_operation_create when the allocation named fails: what it had
\* allocated before, what it releases (kfree, greybus_free_gbuf) before it
\* returns NULL, and whether it reached list_add_tail
gb_operation_create_failed(fail) ==
    [ret |-> "NULL",
     allocated |-> CASE fail = "operation" -> {}
                     [] fail = "request" -> {"operation"}
                     [] OTHER -> {"operation", "request"},
     released |-> CASE fail = "operation" -> {}
                    [] fail = "request" -> {"operation"}
                    [] OTHER -> {"request", "operation"},
     listed |-> FALSE]

\* gb_operation_create fails for a caller: kzalloc or one of the two
\* greybus_alloc_gbuf calls returns NULL
CreateFail(t) ==
    /\ ~ halted
    /\ thr[t].pc = "idle"
    /\ \A u \in Threads : u < t => thr[u].pc # "idle"
    /\ \E fail \in AllocFailures :
         LET r == gb_operation_create_failed(fail) IN
           /\ leaked' = leaked \cup (r.allocated \ r.released)
           /\ operations' = IF r.listed THEN Append(operations, NoOp)
                             ELSE operations
           /\ thr' = [thr EXCEPT ![t] = [pc |-> "nomem", op |-> NoOp,
                                        ret |-> r.ret]]
    /\ UNCHANGED << ops, op_cycle, pending, protocol, gb_operations_lock, rx,
                    workq, wk, rxlog, nframes, handled, fault, halted , errlog >>

\* The owner destroys its operation once the send is over for it: the send
\* failed, the synchronous send returned, or the callback has run.
\* gb_operation_destroy unlinks it from the list and frees it and its
\* buffers; the pending tree is not touched.
MayDestroy(t) ==
    /\ thr[t].pc = "returned"
    /\ LET o == thr[t].op IN
         \/ thr[t].ret # "0"
         \/ ~ ops[o].callback
         \/ ops[o].ncallback > 0

Destroy(t) ==
    /\ ~ halted
    /\ UNCHANGED << leaked, errlog >>
    /\ MayDestroy(t)
    /\ LockFree
    /\ LET o == thr[t].op IN
         /\ ops' = [ops EXCEPT ![o].st = "destroyed"]
         /\ operations' = RemoveAll(operations, o)
         /\ thr' = [thr EXCEPT ![t].pc = "done", ![t].ret = "none"]
    /\ UNCHANGED << op_cycle, pending, protocol, gb_operations_lock, rx, workq,
                    wk, rxlog, nframes, handled, fault, halted >>

(***************************************************************************)
(* Frames the peer can deliver: data is the raw block, size its length.    *)
(***************************************************************************)
\* ids a response can carry: assigned ones and one that is never assigned
FrameIds == {1, 7, U16_MAX}
\* (raw size, size declared in the header) of a well-formed frame
GoodSizes == {<< 16, 16 >>}
\* a response larger than the response buffer; a frame that declares more
\* than the maximum (and more than was delivered); a raw block larger than
\* the maximum
BadSizes == {<< 24, 24 >>,
             << 16, GB_OPERATION_MESSAGE_SIZE_MAX + 1 >>,
             << GB_OPERATION_MESSAGE_SIZE_MAX + 1, 16 >>}
PayloadBytes == {17}
\* what a read past the end of a block can yield
GarbageBytes == {0, 255}

Frame(type, id, msg_size, size, b) ==
    [data |-> BCat(HdrBytes(msg_size, id, type), Fill(size - HdrSize, b)),
     size |-> size]

ResponseFrames ==
    {Frame(OrResponse(t), id, sz[2], sz[1], b) :
        t \in RequestTypes, id \in FrameIds, sz \in GoodSizes, b \in PayloadBytes}
    \cup
    {Frame(OrResponse(t), 1, sz[2], sz[1], b) :
        t \in RequestTypes, sz \in BadSizes, b \in PayloadBytes}
RequestFrames ==
    {Frame(t, 1, sz[2], sz[1], b) :
        t \in RequestTypes, b \in PayloadBytes,
        sz \in GoodSizes \cup {<< 16, GB_OPERATION_MESSAGE_SIZE_MAX + 1 >>}}
Frames == ResponseFrames \cup RequestFrames

\* memcpy(dst, src, n): the first n bytes of dst become those of src; a
\* byte read past the end of src is g; bytes past the end of dst land
\* outside the buffer and are not part of it
memcpy(dst, src, n, g) ==
    LET landing == IF n < BLen(dst) THEN n ELSE BLen(dst)
        source == BCat(src, Fill(n - BLen(src), g))
    IN  BCat(BTake(source, landing), BDrop(dst, landing))

(***************************************************************************)
(* gb_connection_operation_recv.                                           *)
(***************************************************************************)
\* the frame of the call, how the call ended (the message of its
\* gb_connection_err, if any) and the operation it selected
Log(outcome, o, data, size) ==
    [outcome |-> outcome, op |-> o, type |-> hdr_type(data),
     id |-> hdr_id(data), size |-> size, msg_size |-> hdr_size(data)]

\* the check of the raw size against the maximum, line 431
message_too_big(data, size) == size > GB_OPERATION_MESSAGE_SIZE_MAX

\* the check of the raw size against the response buffer, line 449
recv_buffer_too_small(size, gbuf) == size > gbuf.transfer_buffer_length

\* the number of bytes the memcpy of line 464 copies
copy_length(data, size) == hdr_size(data)

\* queue_work: a work item already queued is not queued again
queue_work(q, o) == IF o \in SeqSet(q) THEN q ELSE Append(q, o)

\* the peer hands frame f to an idle receive path
Handed(f) ==
    /\ rx.pc = "idle"
    /\ nframes < MaxFrames
    /\ nframes' = nframes + 1
    /\ f \in Frames

\* a raw block larger than the maximum is dropped
RecvTooBig ==
    /\ ~ halted
    /\ UNCHANGED << leaked, errlog >>
    /\ \E f \in Frames :
         /\ Handed(f)
         /\ message_too_big(f.data, f.size)
         /\ rxlog' = Log("message too big", NoOp, f.data, f.size)
    /\ UNCHANGED << ops, op_cycle, pending, operations, protocol,
                    gb_operations_lock, thr, rx, workq, wk, handled, fault,
                    halted >>

\* the call needs the lock (to find the operation, or to add a new one to
\* the list) while an insert holds it: it spins
RecvBlocked ==
    /\ ~ halted
    /\ UNCHANGED << leaked, errlog >>
    /\ ~ LockFree
    /\ \E f \in Frames :
         /\ Handed(f)
         /\ ~ message_too_big(f.data, f.size)
         /\ rx' = [pc |-> "blocked", op |-> NoOp, data |-> f.data, size |-> f.size]
    /\ UNCHANGED << ops, op_cycle, pending, operations, protocol,
                    gb_operations_lock, thr, workq, wk, rxlog, handled, fault,
                    halted >>

\* a response: gb_operation_find under the lock; the frame is dropped when
\* no pending operation has its id
RecvFind ==
    /\ ~ halted
    /\ UNCHANGED << leaked, errlog >>
    /\ LockFree
    /\ \E f \in Frames :
         /\ Handed(f)
         /\ ~ message_too_big(f.data, f.size)
         /\ IsResponseType(hdr_type(f.data))
         /\ LET w == gb_operation_find(hdr_id(f.data)) IN
              /\ IF w.op = NoOp
                 THEN /\ rxlog' = Log("operation not found", NoOp, f.data, f.size)
                      /\ UNCHANGED rx
                 ELSE /\ rx' = [pc |-> "found", op |-> w.op, data |-> f.data,
                                size |-> f.size]
                      /\ UNCHANGED rxlog
              /\ Undefined(\E p \in w.seen : Destroyed(p), "use after free")
    /\ UNCHANGED << ops, op_cycle, pending, operations, protocol,
                    gb_operations_lock, thr, workq, wk, handled >>

\* the found operation is removed from the tree and its response status
\* set; then the frame is dropped as too large for the buffer, or the
\* bytes are copied and the work queued
RecvResponse ==
    /\ ~ halted
    /\ UNCHANGED << leaked, errlog >>
    /\ rx.pc = "found"
    /\ LockFree
    /\ LET o == rx.op
           gbuf == ops[o].response
           n == copy_length(rx.data, rx.size)
           cap == gbuf.transfer_buffer_length
       IN /\ pending' = gb_operation_remove(pending, o)
          /\ IF recv_buffer_too_small(rx.size, gbuf)
             THEN /\ ops' = [ops EXCEPT ![o].response.status = "GB_OP_SUCCESS"]
                  /\ rxlog' = Log("recv buffer too small", o, rx.data, rx.size)
                  /\ UNCHANGED workq
                  /\ Undefined(Destroyed(o), "use after free")
             ELSE /\ \E g \in (IF n > rx.size THEN GarbageBytes ELSE {0}) :
                       ops' = [ops EXCEPT
                          ![o].response.status = "GB_OP_SUCCESS",
                          ![o].response.transfer_buffer =
                               memcpy(@, rx.data, n, g),
                          ![o].response.actual_length = n]
                  /\ rxlog' = Log("response accepted", o, rx.data, rx.size)
                  /\ workq' = queue_work(workq, o)
                  /\ Undefined(Destroyed(o) \/ n > cap \/ n > rx.size,
                               IF Destroyed(o) THEN "use after free"
                               ELSE IF n > cap THEN "buffer overflow"
                               ELSE "read past frame")
          /\ rx' = IdleRx
    /\ UNCHANGED << op_cycle, operations, protocol, gb_operations_lock, thr,
                    wk, nframes, handled >>

\* a request: gb_operation_create for msg_size bytes and no response
\* buffer, the bytes copied into the request buffer, the work queued
RecvRequest ==
    /\ ~ halted
    /\ UNCHANGED << leaked, errlog >>
    /\ LockFree
    /\ \E f \in Frames :
         /\ Handed(f)
         /\ ~ message_too_big(f.data, f.size)
         /\ ~ IsResponseType(hdr_type(f.data))
         /\ LET msg_size == hdr_size(f.data)
                n == copy_length(f.data, f.size)
            IN IF FreeSlots = {}
               THEN /\ rxlog' = Log("can't create operation", NoOp, f.data, f.size)
                    /\ UNCHANGED << ops, operations, workq, fault, halted >>
               ELSE LET o == NextSlot
                        new == gb_operation_create(hdr_type(f.data), msg_size, 0)
                    IN /\ \E g \in (IF n > f.size THEN GarbageBytes ELSE {0}) :
                            ops' = [ops EXCEPT ![o] =
                               [new EXCEPT
                                  !.request.transfer_buffer =
                                      memcpy(@, f.data, n, g),
                                  !.request.actual_length = n]]
                       /\ operations' = Append(operations, o)
                       /\ workq' = queue_work(workq, o)
                       /\ rxlog' = Log("request accepted", o, f.data, f.size)
                       /\ Undefined(n > f.size, "read past frame")
    /\ UNCHANGED << op_cycle, pending, protocol, gb_operations_lock, thr, rx,
                    wk, handled >>

(***************************************************************************)
(* Deferred work: gb_operation_recv_work on the single worker.             *)
(***************************************************************************)
\* gb_operation_complete: the callback is invoked, or the waiters woken
gb_operation_complete(op) ==
    IF op.callback
    THEN [op EXCEPT !.ncallback = @ + 1, !.ncomplete = @ + 1]
    ELSE [op EXCEPT !.done = TRUE, !.ncomplete = @ + 1]

\* the handler gb_operation_request_handle picks: none when the protocol
\* is past the table or its entry is NULL
request_handler(p) ==
    IF InTable(p) THEN gb_operation_recv_handlers(p) ELSE "NULL"

\* a request handling that completes the operation but leaves its result
gb_operation_request_handle_no_result(op) ==
    IF request_handler(protocol) # "NULL" THEN op ELSE gb_operation_complete(op)

\* gb_operation_request_handle: the handler runs and the function returns,
\* or the result becomes GB_OP_PROTOCOL_BAD and the operation is completed
gb_operation_request_handle(op) ==
    IF request_handler(protocol) # "NULL"
    THEN op
    ELSE gb_operation_complete([op EXCEPT !.result = "GB_OP_PROTOCOL_BAD"])

\* a deferred work that completes an answered operation twice
gb_operation_recv_work_twice(op) ==
    IF op.response.null
    THEN gb_operation_complete(gb_operation_request_handle(op))
    ELSE gb_operation_complete(gb_operation_complete(op))

\* gb_operation_recv_work up to line 209: the worker takes the next work
\* item, an incoming request (no response buffer) is handled, and then
\* gb_operation_complete is called whatever the request handling did
gb_operation_recv_work(op) ==
    IF op.response.null
    THEN gb_operation_complete(gb_operation_request_handle(op))
    ELSE gb_operation_complete(op)

WorkRun ==
    /\ ~ halted
    /\ UNCHANGED << leaked, errlog >>
    /\ wk.pc = "idle"
    /\ workq # << >>
    /\ LET o == Head(workq)
           incoming_request == ops[o].response.null
       IN /\ workq' = Tail(workq)
          /\ wk' = [pc |-> "finish", op |-> o,
                    incoming_request |-> incoming_request]
          /\ ops' = [ops EXCEPT ![o] = gb_operation_recv_work(@)]
          /\ handled' = IF incoming_request /\ request_handler(protocol) # "NULL"
                        THEN handled + 1 ELSE handled
          /\ Undefined(Destroyed(o), "deferred work on a destroyed operation")
    /\ UNCHANGED << op_cycle, pending, operations, protocol, gb_operations_lock,
                    thr, rx, rxlog, nframes >>

\* lines 212..215: the buffer that was read into is given back
WorkFinish ==
    /\ ~ halted
    /\ UNCHANGED << leaked, errlog >>
    /\ wk.pc = "finish"
    /\ LET o == wk.op IN
         /\ ops' = IF wk.incoming_request
                   THEN [ops EXCEPT ![o].request.finished = TRUE]
                   ELSE [ops EXCEPT ![o].response.finished = TRUE]
         /\ Undefined(Destroyed(o), "buffer release of a destroyed operation")
    /\ wk' = IdleWk
    /\ UNCHANGED << op_cycle, pending, operations, protocol, gb_operations_lock,
                    thr, rx, workq, rxlog, nframes, handled >>

(***************************************************************************)
(* gb_operation_response_send, called by the protocol code that was handed *)
(* an incoming request, once the deferred work is through with it.         *)
(***************************************************************************)
ResponseSend(o) ==
    /\ ~ halted
    /\ UNCHANGED << leaked, errlog >>
    /\ Live(o)
    /\ ops[o].response.null
    /\ o \notin SeqSet(workq)
    /\ wk.op # o
    /\ request_handler(protocol) # "NULL"
    /\ LockFree
    /\ pending' = gb_operation_remove(pending, o)
    /\ Undefined(o \notin SeqSet(pending), "erase of a node not in the tree")
    /\ ops' = [ops EXCEPT ![o].st = "destroyed"]
    /\ operations' = RemoveAll(operations, o)
    /\ UNCHANGED << op_cycle, protocol, gb_operations_lock, thr, rx, workq, wk,
                    rxlog, nframes, handled >>

(***************************************************************************)
(* gb_operation_gbuf_complete: the transport has finished with the request *)
(* buffer that was submitted, has set its status, and notifies.            *)
(***************************************************************************)
\* a notification that completes the operation with the buffer's status
gb_operation_gbuf_complete_terminates(op, status) ==
    IF status # "0"
    THEN gb_operation_complete([op EXCEPT !.request.status = status,
                                         !.result = status])
    ELSE [op EXCEPT !.request.status = status]

\* the operation after the notification for its request buffer: the
\* function writes nothing; the status is what the transport has set
gb_operation_gbuf_complete(op, status) ==
    [op EXCEPT !.request.status = status]

\* the message of gb_connection_err, lines 236..250: id and type are read
\* from the header of the buffer, and only when the status is not zero
gbuf_error(op, status) ==
    IF status # "0"
    THEN [reported |-> TRUE, id |-> hdr_id(op.request.transfer_buffer),
          type |-> hdr_type(op.request.transfer_buffer), status |-> status]
    ELSE errlog

GbufComplete(o) ==
    /\ ~ halted
    /\ UNCHANGED leaked
    /\ Live(o)
    /\ ops[o].submitted
    /\ ops[o].request.status = "unset"
    /\ \E status \in Errnos :
         /\ ops' = [ops EXCEPT ![o] = gb_operation_gbuf_complete(@, status)]
         /\ errlog' = gbuf_error(ops[o], status)
    /\ UNCHANGED << op_cycle, pending, operations, protocol, gb_operations_lock,
                    thr, rx, workq, wk, rxlog, nframes, handled, fault, halted >>

(***************************************************************************)
(* Many complete exchanges in a row.  While the receive path and the       *)
(* worker are idle, operations that are created, sent, answered, completed *)
(* and destroyed one after the other leave nothing behind but the advanced *)
(* identifier counter.  The burst takes all ids of the 16-bit cycle but    *)
(* one, so it can run only when no pending operation holds one of them.    *)
(***************************************************************************)
\* the counter after n more identifiers were assigned
Advance(cycle, n) == ((cycle + n - 1) % U16_MAX) + 1

RoundTripCount == U16_MAX - 1

RoundTrips ==
    /\ ~ halted
    /\ UNCHANGED << leaked, errlog >>
    /\ LockFree
    /\ rx.pc = "idle"
    /\ wk.pc = "idle"
    /\ workq = << >>
    /\ FreeSlots # {}
    /\ op_cycle <= MaxBurstStart
    /\ \A i \in DOMAIN pending :
          ops[pending[i]].id = Advance(op_cycle, RoundTripCount + 1)
    /\ op_cycle' = Advance(op_cycle, RoundTripCount)
    /\ UNCHANGED << ops, pending, operations, protocol, gb_operations_lock, thr,
                    rx, workq, wk, rxlog, nframes, handled, fault, halted >>

(***************************************************************************)
(* The system.                                                             *)
(***************************************************************************)
Caller ==
    \E t \in Threads :
        \/ Create(t)
        \/ CreateFail(t)
        \/ SendAssign(t)
        \/ SendInsert(t)
        \/ SendSubmit(t)
        \/ WaitDone(t)
        \/ WaitInterrupted(t)
        \/ Destroy(t)

Receive == RecvTooBig \/ RecvBlocked \/ RecvFind \/ RecvResponse \/ RecvRequest

Worker == WorkRun \/ WorkFinish

Consumer == \E o \in Slots : ResponseSend(o)

Next == Caller \/ Receive \/ Worker \/ Consumer \/ RoundTrips

Spec == Init /\ [][Next]_vars

\* Scheduling: the receive path goes on with a frame it has found the
\* operation of, the single worker runs the work that is queued, and a
\* caller that can go on (insert, submit, wake up from a completed wait)
\* does.  New frames, new operations and signals are up to the environment.
Fairness ==
    /\ WF_vars(RecvResponse)
    /\ WF_vars(Worker)
    /\ \A t \in Threads :
          /\ WF_vars(SendInsert(t))
          /\ WF_vars(SendSubmit(t))
          /\ WF_vars(WaitDone(t))

\* Creation and the first step of the send for the whole range of types
\* and for payload sizes up to the largest a frame of the maximum size
\* holds.
TypesOfRequests == {0, 1, GB_OPERATION_TYPE_RESPONSE - 1}
PayloadSizes == {0, 1, GB_OPERATION_MESSAGE_SIZE_MAX - HdrSize}
ResponsePayloadSizes == {1, GB_OPERATION_MESSAGE_SIZE_MAX - HdrSize}

CreateAny(t) ==
    CreateWith(t, TypesOfRequests, PayloadSizes, ResponsePayloadSizes)

CreateNext == \E t \in Threads : CreateAny(t) \/ SendAssign(t)

CreateSpec == Init /\ [][CreateNext]_vars

\* The engine with the transport's notifications for submitted buffers.
Transport == \E o \in Slots : GbufComplete(o)

GbufNext == Caller \/ RecvFind \/ RecvResponse \/ Worker \/ Transport

GbufSpec == Init /\ [][GbufNext]_vars

\* A quiet environment: every send is synchronous, no submit fails, no
\* signal ends a wait, and the peer sends nothing but responses whose
\* declared size is their raw size and fits the response buffer.
Quiet ==
    /\ fault = {}
    /\ rxlog.outcome \in {"none", "response accepted", "operation not found"}
    /\ rx.pc # "idle" =>
          /\ IsResponseType(hdr_type(rx.data))
          /\ hdr_size(rx.data) = rx.size
    /\ rx.pc = "found" => ~ recv_buffer_too_small(rx.size, ops[rx.op].response)
    /\ \A o \in Slots : ~ ops[o].callback /\ ~ ops[o].interrupted
    /\ \A t \in Threads : thr[t].ret \in {"none", "0"}

QuietCaller == Caller /\ Quiet'

QuietReceive == (RecvBlocked \/ RecvFind \/ RecvResponse) /\ Quiet'

QuietWorker == Worker /\ Quiet'

QuietNext == QuietCaller \/ QuietReceive \/ QuietWorker \/ RoundTrips

\* the program in a quiet environment, fairly scheduled
QuietSpec == Init /\ [][QuietNext]_vars /\ Fairness

(***************************************************************************)
(* Properties.                                                             *)
(***************************************************************************)
Allocated == {o \in Slots : ops[o].st # "free"}
PendingSet == SeqSet(pending)
\* an incoming request: created by the receive path, no response buffer
Incoming(o) == o \in Allocated /\ ops[o].response.null
\* the deferred work of an incoming request has run
Handled(o) == Incoming(o) /\ o \notin SeqSet(workq) /\ wk.op # o
NoHandler ==
    ~ InTable(protocol) \/ gb_operation_recv_handlers(protocol) = "NULL"

\* C1: gb_operation_complete fires at most once for every operation; in
\* particular the deferred work of an inbound request on a connection with
\* no handler for its protocol completes the operation once, not twice.
C1_CompletedAtMostOnce == \A o \in Slots : ops[o].ncomplete <= 1

\* C2: no two operations that are in the pending tree at the same time
\* have the same id, also after the 16-bit counter has wrapped while older
\* operations are still pending.
C2_UniquePendingIds ==
    \A i, j \in DOMAIN pending :
        i # j => ops[pending[i]].id # ops[pending[j]].id

\* the counter wrapped while an older operation was pending: ids 65535 and
\* 1 are in the tree together
C2_Witness ==
    \E a, b \in PendingSet :
        /\ Live(a) /\ Live(b)
        /\ ops[a].id = U16_MAX
        /\ ops[b].id = 1


\* the frame handed to the receive path in this step: it is in rx when the
\* call goes on, and in the log when the call has ended
HandedFrame ==
    IF rx'.pc # "idle"
    THEN [type |-> hdr_type(rx'.data), id |-> hdr_id(rx'.data),
          size |-> rx'.size, msg_size |-> hdr_size(rx'.data)]
    ELSE [type |-> rxlog'.type, id |-> rxlog'.id, size |-> rxlog'.size,
          msg_size |-> rxlog'.msg_size]
\* the live pending operations with a given id
Target(id) == {o \in PendingSet : Live(o) /\ ops[o].id = id}
\* the ids in the pending tree
PendingIds == {ops[o].id : o \in PendingSet}
Accepted(o) == ~ ops[o].response.null /\ ops[o].response.actual_length > 0

\* C3: a well-formed response frame (declared size = raw size, within the
\* response buffer) whose id is that of a pending operation is found, is
\* copied into the response buffer of exactly that operation with its
\* bytes unchanged, and the work is queued for that operation only.
C3_ResponseToItsOperation ==
    [][ /\ ( /\ nframes' = nframes + 1
             /\ LockFree
             /\ IsResponseType(HandedFrame.type)
             /\ HandedFrame.size <= GB_OPERATION_MESSAGE_SIZE_MAX
             /\ Target(HandedFrame.id) # {} )
            => (rx'.pc = "found" /\ rx'.op \in Target(HandedFrame.id))
        /\ ( /\ rx.pc = "found"
             /\ rx'.pc = "idle"
             /\ Live(rx.op)
             /\ hdr_size(rx.data) = rx.size
             /\ rx.size <= ops[rx.op].response.transfer_buffer_length )
            => /\ ops[rx.op].id = hdr_id(rx.data)
               /\ BTake(ops'[rx.op].response.transfer_buffer, rx.size) = rx.data
               /\ ops'[rx.op].response.actual_length = rx.size
               /\ workq' = Append(workq, rx.op)
               /\ \A p \in Slots \ {rx.op} : ops'[p] = ops[p]
      ]_vars

\* two pending operations have both got their responses, the one sent
\* later first
C3_Witness ==
    \E a, b \in Slots :
        /\ Live(a) /\ Live(b)
        /\ ops[a].id = U16_MAX /\ ops[b].id = 1
        /\ Accepted(a) /\ Accepted(b)
        /\ hdr_id(ops[a].response.transfer_buffer) = U16_MAX
        /\ hdr_id(ops[b].response.transfer_buffer) = 1
        /\ workq = << b, a >>

\* C4: the number of bytes written into a response buffer never exceeds
\* the capacity of the buffer.
C4_CopyWithinCapacity ==
    \A o \in Allocated :
        ~ ops[o].response.null
            => ops[o].response.actual_length
                   <= ops[o].response.transfer_buffer_length

\* C5: a frame whose header declares more than the maximum frame size is
\* dropped: it creates no operation, nothing is copied, no work is queued.
C5_OversizeDeclaredDropped ==
    rxlog.msg_size > GB_OPERATION_MESSAGE_SIZE_MAX
        => rxlog.outcome \notin {"request accepted", "response accepted"}

\* C6: a response frame whose id is not in the pending tree is dropped and
\* changes nothing: the tree, the list, every operation, the work queue
\* and the callers are as before.
C6_UnknownResponseDropped ==
    [][ ( /\ nframes' = nframes + 1
          /\ IsResponseType(HandedFrame.type)
          /\ HandedFrame.size <= GB_OPERATION_MESSAGE_SIZE_MAX
          /\ HandedFrame.id \notin PendingIds )
         => /\ rx'.pc # "found"
            /\ UNCHANGED << ops, op_cycle, pending, operations,
                            gb_operations_lock, thr, workq, wk, handled >>
      ]_vars

\* an unknown response was dropped while an operation was pending
C6_Witness ==
    /\ rxlog.outcome = "operation not found"
    /\ \E o \in PendingSet : Live(o) /\ ops[o].id # rxlog.id

\* C7: a response dropped as larger than the response buffer leaves its
\* operation in the pending tree, with the response buffer as it was.
C7_TooLargeStaysPending ==
    rxlog.outcome = "recv buffer too small"
        => /\ rxlog.op \in PendingSet
           /\ ops[rxlog.op].response.status = "unset"

\* C8: the deferred work of an inbound request on a connection whose
\* protocol has no handler (NULL entry, or past the table) sets the result
\* to GB_OP_PROTOCOL_BAD, completes the operation and calls no handler.
C8_NoHandlerProtocolBad ==
    \A o \in Slots :
        (Handled(o) /\ NoHandler)
            => /\ ops[o].result = "GB_OP_PROTOCOL_BAD"
               /\ ops[o].ncomplete >= 1
               /\ ops[o].done
               /\ handled = 0

C8_Witness == \E o \in Slots : Handled(o) /\ ~ InTable(protocol)

\* C9: a synchronous send that was submitted and not interrupted has not
\* returned before gb_operation_complete ran for its operation: the
\* response was received and its deferred work has run.
C9_SyncReturnAfterComplete ==
    \A t \in Threads :
        LET o == thr[t].op IN
        ( /\ thr[t].pc = "returned"
          /\ ~ ops[o].callback
          /\ ops[o].submitted
          /\ ~ ops[o].interrupted )
            => /\ ops[o].ncomplete >= 1
               /\ ops[o].response.status = "GB_OP_SUCCESS"
               /\ o \notin SeqSet(workq)

C9_Witness ==
    \E t \in Threads :
        /\ thr[t].pc = "returned"
        /\ thr[t].ret = "0"
        /\ ~ ops[thr[t].op].callback
        /\ ops[thr[t].op].submitted
        /\ ~ ops[thr[t].op].interrupted


\* the peer has delivered to the receive path a response for the
\* synchronous, submitted operation thread t waits for: the id is that of
\* the operation, which is pending, and the declared and raw size are the
\* same and within the response buffer
Delivered(t) ==
    LET o == thr[t].op IN
    /\ thr[t].pc = "wait"
    /\ ops[o].submitted
    /\ ~ ops[o].callback
    /\ o \in PendingSet
    /\ rx.pc \in {"found", "blocked"}
    /\ IsResponseType(hdr_type(rx.data))
    /\ hdr_id(rx.data) = ops[o].id
    /\ hdr_size(rx.data) = rx.size
    /\ rx.size <= ops[o].response.transfer_buffer_length

\* C10: under fair scheduling of the receive path and the worker, a
\* synchronous send whose request was submitted and whose matching
\* response, of a size within the response buffer, was delivered
\* eventually returns 0 to its caller.
C10_SyncSendReturnsSuccess ==
    \A t \in Threads :
        Delivered(t) ~> (thr[t].pc = "returned" /\ thr[t].ret = "0")


\* an operation sent with a callback whose submission succeeded
AsyncSent(o) == ops[o].callback /\ ops[o].submitted

\* C11: a send with a callback returns 0 in the step in which the submit
\* succeeds, without waiting and without invoking the callback; the
\* callback is invoked only by a step of the deferred work, never by a
\* caller or by the receive path; it is invoked at most once, and once
\* when the deferred work of the operation has run.
C11_AsyncCallbackOnceFromWorker ==
    [][ /\ \A t \in Threads :
             ( /\ thr[t].pc = "submit"
               /\ ops[thr[t].op].callback
               /\ ops'[thr[t].op].submitted )
                => /\ thr'[t].pc = "returned"
                   /\ thr'[t].ret = "0"
                   /\ ops'[thr[t].op].ncallback = ops[thr[t].op].ncallback
        /\ \A o \in Slots :
             ops'[o].ncallback # ops[o].ncallback
                => /\ wk.pc = "idle"
                   /\ Head(workq) = o
                   /\ wk'.pc = "finish"
                   /\ wk'.op = o
                   /\ UNCHANGED << thr, rx, rxlog, pending >>
        /\ \A o \in Slots :
             (ops'[o].callback /\ ops'[o].submitted)
                => /\ ops'[o].ncallback <= 1
                   /\ (wk'.op = o => ops'[o].ncallback = 1)
      ]_vars

\* the send has returned 0 and the callback was invoked afterwards by the
\* worker, which is still at the operation
C11_Witness ==
    \E t \in Threads :
        /\ thr[t].pc = "returned"
        /\ thr[t].ret = "0"
        /\ AsyncSent(thr[t].op)
        /\ ops[thr[t].op].ncallback = 1
        /\ wk.op = thr[t].op


\* C12: a synchronous send whose wait was interrupted never returns
\* success, whatever the cancelling of the request buffer returned.
C12_InterruptedNeverSuccess ==
    \A t \in Threads :
        (thr[t].pc = "returned" /\ ops[thr[t].op].interrupted)
            => thr[t].ret # "0"


\* C13: when an allocation fails in gb_operation_create the call returns
\* NULL, everything it had allocated is released, and the operation list,
\* the pending tree and every operation are as before.
C13_CreateFailureLeavesNothing ==
    [][ \A t \in Threads :
          (thr[t].pc = "idle" /\ thr'[t].pc = "nomem")
             => /\ thr'[t].ret = "NULL"
                /\ thr'[t].op = NoOp
                /\ leaked' = {}
                /\ UNCHANGED << ops, operations, pending, workq >>
      ]_vars

\* a create failed while another operation was listed and pending
C13_Witness ==
    \E t \in Threads :
        /\ thr[t].pc = "nomem"
        /\ operations # << >>
        /\ pending # << >>


\* C14: when gb_operation_request_send has returned the error of a failed
\* submit, the operation is not in the pending tree.
C14_SubmitFailureNotPending ==
    \A t \in Threads :
        ( /\ thr[t].pc = "returned"
          /\ thr[t].ret # "0"
          /\ ~ ops[thr[t].op].submitted )
            => thr[t].op \notin PendingSet


C16_HeadersAfterCreate ==
    \A t \in Threads :
        thr[t].pc = "created" =>
            LET request == ops[thr[t].op].request
                response == ops[thr[t].op].response
                n == request.actual_length
            IN /\ ~ request.null /\ ~ response.null
               /\ request.transfer_buffer_length = HdrSize + n
               /\ BLen(request.transfer_buffer) = HdrSize + n
               /\ hdr_size(request.transfer_buffer) = HdrSize + n
               /\ hdr_id(request.transfer_buffer) = 0
               /\ hdr_type(request.transfer_buffer) \in TypesOfRequests
               /\ ~ IsResponseType(hdr_type(request.transfer_buffer))
               /\ \A i \in 6 .. 8 : BByte(request.transfer_buffer, i) = 0
               /\ hdr_size(response.transfer_buffer)
                      = response.transfer_buffer_length
               /\ BLen(response.transfer_buffer)
                      = response.transfer_buffer_length
               /\ hdr_id(response.transfer_buffer) = 0
               /\ hdr_type(response.transfer_buffer)
                      = hdr_type(request.transfer_buffer)
                            + GB_OPERATION_TYPE_RESPONSE

\* an operation of the largest type and the largest payload was created:
\* its request header says 4096 bytes and its response header type 0xff
C16_Witness ==
    \E t \in Threads :
        /\ thr[t].pc = "created"
        /\ hdr_size(ops[thr[t].op].request.transfer_buffer)
               = GB_OPERATION_MESSAGE_SIZE_MAX
        /\ hdr_type(ops[thr[t].op].request.transfer_buffer) = 127
        /\ hdr_type(ops[thr[t].op].response.transfer_buffer) = 255


\* C17: gb_operation_insert never ends up walking the tree for ever with
\* the lock held: no caller is in the endless loop, and between the steps
\* of the program the lock is free.
C17_InsertTerminates ==
    /\ \A t \in Threads : thr[t].pc # "spinning"
    /\ LockFree


\* an operation whose response has not been received yet
Unanswered(o) == ops[o].response.status = "unset"

\* C18: when gb_operation_request_send is about to hand the request to
\* the transport, the id is assigned and written to the request header and
\* the operation was inserted into the pending tree; and a submitted
\* operation that is still unanswered is in the tree, is what
\* gb_operation_find returns for its id, and carries that id in its header.
C18_RegisteredBeforeSubmit ==
    /\ \A t \in Threads :
          thr[t].pc = "submit" =>
             LET o == thr[t].op IN
             /\ ~ ops[o].submitted
             /\ ops[o].id # 0
             /\ hdr_id(ops[o].request.transfer_buffer) = ops[o].id
             /\ Unanswered(o) => o \in PendingSet
    /\ \A o \in Slots :
          (ops[o].submitted /\ Live(o) /\ Unanswered(o))
             => /\ o \in PendingSet
                /\ gb_operation_find(ops[o].id).op = o
                /\ hdr_id(ops[o].request.transfer_buffer) = ops[o].id

\* a response that arrived after the submit of an operation sent with a
\* callback has found that operation
C18_Witness ==
    \E o \in Slots :
        /\ ops[o].submitted
        /\ ops[o].callback
        /\ Unanswered(o)
        /\ rx.pc = "found"
        /\ rx.op = o


\* C19: gb_operation_remove is never applied to an operation that is not
\* in the pending tree, neither by gb_operation_response_send nor by the
\* receive path.
C19_RemoveOnlyMembers == "erase of a node not in the tree" \notin fault

\* C20: every operation in the pending tree is a live, undestroyed
\* operation on the connection's operation list, when callers destroy an
\* operation only after their gb_operation_request_send has returned.
C20_PendingAreLive ==
    \A o \in PendingSet : Live(o) /\ o \in SeqSet(operations)

\* C21: the deferred work never uses an operation that has been destroyed:
\* while the work has completed its operation and still has the buffer to
\* release, the operation has not been destroyed (in a run where nothing
\* went wrong before).
C21_WorkNeverUsesDestroyed ==
    (wk.pc = "finish" /\ fault = {}) => ~ Destroyed(wk.op)

\* C22: between gb_operation_find returning an operation and the receive
\* path's gb_operation_remove of it, no other context removes or destroys
\* that operation: while the receive path holds a found operation (and
\* nothing went wrong before), it is live and still in the pending tree.
C22_FoundStaysPending ==
    (rx.pc = "found" /\ fault = {}) => (Live(rx.op) /\ rx.op \in PendingSet)

\* C23: once a response with id X was accepted for an operation, a second
\* response frame with id X (no other pending operation having id X) is
\* dropped as not found and changes no operation and no work queue; and
\* every response the receive path hands to an operation finds its
\* response buffer never written and its work not queued.
C23_SecondResponseDropped ==
    [][ /\ ( /\ nframes' = nframes + 1
             /\ LockFree
             /\ IsResponseType(HandedFrame.type)
             /\ HandedFrame.size <= GB_OPERATION_MESSAGE_SIZE_MAX
             /\ \E o \in Slots :
                   /\ Live(o)
                   /\ Accepted(o)
                   /\ ops[o].id = HandedFrame.id
                   /\ \A p \in PendingSet \ {o} : ops[p].id # HandedFrame.id )
            => /\ rx'.pc = "idle"
               /\ rxlog'.outcome = "operation not found"
               /\ UNCHANGED << ops, pending, workq, wk >>
        /\ (rx.pc = "found" /\ rx'.pc = "idle")
            => /\ ops[rx.op].response.status = "unset"
               /\ ops[rx.op].response.actual_length = 0
               /\ rx.op \notin SeqSet(workq)
               /\ wk.op # rx.op
      ]_vars

\* a second response with the id of an accepted operation was dropped
C23_Witness ==
    /\ rxlog.outcome = "operation not found"
    /\ nframes = 2
    /\ \E o \in Slots :
          /\ Live(o)
          /\ Accepted(o)
          /\ ops[o].id = rxlog.id
          /\ o \notin PendingSet

\* C24: for every accepted frame, request or response, the number of bytes
\* copied out of the raw block (recorded as the actual_length of the buffer
\* that was read into) is at most the length of the raw block.
C24_CopyWithinRawBlock ==
    rxlog.outcome \in {"request accepted", "response accepted"}
        => LET op == ops[rxlog.op]
               gbuf == IF op.response.null THEN op.request ELSE op.response
           IN  gbuf.actual_length <= rxlog.size

=============================================================================
